---- MODULE Spec2Model ----
(***************************************************************************)
(* Model of run_amplicon.py: configuration resolution, validation and the  *)
(* dispatch of the composed configuration to NBamplicon.sh.                *)
(*                                                                         *)
(* Python values are tagged records of one shape, so that any two values   *)
(* can be compared: t is the Python type, i the number (int, float, bool), *)
(* s the string and l the list elements.                                   *)
(***************************************************************************)
EXTENDS Integers, Sequences, FiniteSets, TLC

None     == [t |-> "none",  i |-> 0, s |-> "", l |-> <<>>]
PyInt(k)   == [t |-> "int",   i |-> k, s |-> "", l |-> <<>>]
PyFloat(k) == [t |-> "float", i |-> k, s |-> "", l |-> <<>>]
PyStr(x)   == [t |-> "str",   i |-> 0, s |-> x,  l |-> <<>>]
PyBool(b)  == [t |-> "bool",  i |-> IF b THEN 1 ELSE 0, s |-> "", l |-> <<>>]
PyList(q)  == [t |-> "list",  i |-> 0, s |-> "", l |-> q]

IsNone(v) == v.t = "none"
IsList(v) == v.t = "list"
IsStr(v)  == v.t = "str"
PyLen(v)  == Len(v.l)

\* Python truthiness: None, 0, 0.0, False, "" and [] are false.
Truthy(v) ==
    CASE v.t = "none" -> FALSE
      [] v.t = "list" -> Len(v.l) > 0
      [] v.t = "str"  -> v.s # ""
      [] OTHER        -> v.i # 0

\* source * n for a list
Repeat(q, n) == [k \in 1..(Len(q) * n) |-> q[((k - 1) % Len(q)) + 1]]

\* Exceptions and parser errors, one record shape.
NoExc == [type |-> "", field |-> "", count |-> 0, n |-> 0]
Exc(ty, f, c, n) == [type |-> ty, field |-> f, count |-> c, n |-> n]

(***************************************************************************)
(* Field names                                                             *)
(***************************************************************************)
PerSampleKeys ==
    << "FRAGMENT_SIZE", "CHOPPER_LEN", "AMPLICON_SORTER_MIN", "AMPLICON_SORTER_MAX",
       "CHOPPER_LEN_PCT", "AMPLICON_SORTER_MIN_PCT", "AMPLICON_SORTER_MAX_PCT" >>

PerSampleArgs ==
    << "fragment_size", "chopper_len", "amp_min", "amp_max",
       "chopper_len_pct", "amp_min_pct", "amp_max_pct" >>

LengthKeys == << "CHOPPER_LEN", "AMPLICON_SORTER_MIN", "AMPLICON_SORTER_MAX" >>

RequiredKeys == << "OUTDIR", "CHOPPER_QUAL", "THREADS" >>

ConfigKeys ==
    { "INPUTDIR", "SAMPLE", "barcodes", "OUTDIR", "FRAGMENT_SIZE", "CHOPPER_QUAL",
      "CHOPPER_LEN", "CHOPPER_LEN_PCT", "AMPLICON_SORTER_MIN", "AMPLICON_SORTER_MIN_PCT",
      "AMPLICON_SORTER_MAX", "AMPLICON_SORTER_MAX_PCT", "AMPLICON_SORTER_ALLREADS",
      "THREADS" }

DEFAULT_CONFIG ==
    [k \in ConfigKeys |->
        CASE k = "INPUTDIR" -> PyList(<<>>)
          [] k = "SAMPLE" -> PyList(<<>>)
          [] k = "barcodes" -> PyList(<<>>)
          [] k = "CHOPPER_QUAL" -> PyInt(20)
          [] k = "AMPLICON_SORTER_ALLREADS" -> PyBool(TRUE)
          [] k = "THREADS" -> PyInt(4)
          [] OTHER -> None]

(***************************************************************************)
(* derive_from_fragment_size                                               *)
(***************************************************************************)
\* Python round() of the quotient num / den (den > 0): nearest integer, a tie
\* goes to the even neighbour.
PyRound(num, den) ==
    LET q == num \div den
        r == num % den
    IN  IF 2 * r < den THEN q
        ELSE IF 2 * r > den THEN q + 1
        ELSE IF q % 2 = 0 THEN q ELSE q + 1

\* derive_from_fragment_size with int() in place of round()
derive_truncating(fragment_size, chopper_len_pct, amp_min_pct, amp_max_pct) ==
    [CHOPPER_LEN         |-> (fragment_size * chopper_len_pct) \div 100,
     AMPLICON_SORTER_MIN |-> (fragment_size * amp_min_pct) \div 100,
     AMPLICON_SORTER_MAX |-> (fragment_size * amp_max_pct) \div 100]

\* the default percentages (lines 242-244, and again lines 490-492)
CHOPPER_LEN_PCT_DEFAULT == 50
AMP_MIN_PCT_DEFAULT == 75
AMP_MAX_PCT_DEFAULT == 125

derive_from_fragment_size(fragment_size, chopper_len_pct, amp_min_pct, amp_max_pct) ==
    [CHOPPER_LEN         |-> PyRound(fragment_size * chopper_len_pct, 100),
     AMPLICON_SORTER_MIN |-> PyRound(fragment_size * amp_min_pct, 100),
     AMPLICON_SORTER_MAX |-> PyRound(fragment_size * amp_max_pct, 100)]

(***************************************************************************)
(* _resolve_array_field                                                    *)
(* The result is [ok, val, exc]: val is None or a list when ok, exc the    *)
(* exception raised otherwise.                                             *)
(***************************************************************************)
Ret(v)   == [ok |-> TRUE, val |-> v, exc |-> NoExc]
Raise(e) == [ok |-> FALSE, val |-> None, exc |-> e]

\* Cardinality_rule without the length check: any other length passes through
Cardinality_rule_unchecked(source, n, field_name) ==
    IF ~IsList(source)
    THEN Raise(Exc("TypeError", field_name, 0, n))
    ELSE IF PyLen(source) = 1 THEN Ret(PyList(Repeat(source.l, n)))
    ELSE Ret(source)

\* The length rule applied to the chosen source. len() of an int or a float
\* raises TypeError.
Cardinality_rule(source, n, field_name) ==
    IF ~IsList(source)
    THEN Raise(Exc("TypeError", field_name, 0, n))
    ELSE IF PyLen(source) = 1 THEN Ret(PyList(Repeat(source.l, n)))
    ELSE IF PyLen(source) = n THEN Ret(source)
    ELSE Raise(Exc("ValueError", field_name, PyLen(source), n))

_resolve_array_field(cli_values, base_value, n, field_name) ==
    IF ~IsNone(cli_values) THEN Cardinality_rule(cli_values, n, field_name)
    ELSE IF IsList(base_value) THEN Cardinality_rule(base_value, n, field_name)
    ELSE IF ~IsNone(base_value) THEN Cardinality_rule(PyList(<<base_value>>), n, field_name)
    ELSE Ret(None)

(***************************************************************************)
(* build_combined_config                                                   *)
(* args maps the option names (dest) to values, None when the option is    *)
(* not given. The result is [ok, cfg, exc].                                *)
(***************************************************************************)
Override(cli, old) == IF ~IsNone(cli) THEN cli ELSE old

\* cfg after the shared fields are set (lines 293-308)
SharedFields(base, args, samples, inputdirs) ==
    [k \in ConfigKeys |->
        CASE k = "SAMPLE" -> samples
          [] k = "INPUTDIR" -> inputdirs
          [] k = "barcodes" -> Override(args["barcodes"], base[k])
          [] k = "OUTDIR" -> Override(args["outdir"], base[k])
          [] k = "CHOPPER_QUAL" -> Override(args["chopper_qual"], base[k])
          [] k = "AMPLICON_SORTER_ALLREADS" -> Override(args["allreads"], base[k])
          [] k = "THREADS" -> Override(args["threads"], base[k])
          [] OTHER -> base[k]]

\* build_combined_config that fills a null length field from FRAGMENT_SIZE
build_combined_config_eager(base, args, samples, inputdirs) ==
    LET cfg0 == SharedFields(base, args, samples, inputdirs)
        n == PyLen(samples)
        resolved == [j \in 1..Len(PerSampleKeys) |->
                        _resolve_array_field(args[PerSampleArgs[j]], cfg0[PerSampleKeys[j]],
                                             n, PerSampleKeys[j])]
        failed == {j \in 1..Len(PerSampleKeys) : ~resolved[j].ok}
        first == CHOOSE j \in failed : \A j2 \in failed : j <= j2
        Pos(k) == CHOOSE j \in 1..Len(PerSampleKeys) : PerSampleKeys[j] = k
        IsPerSample(k) == \E j \in 1..Len(PerSampleKeys) : PerSampleKeys[j] = k
        fs == resolved[1].val
        Derived(k, p) ==
            LET d == derive_from_fragment_size(fs.l[p].i, CHOPPER_LEN_PCT_DEFAULT,
                                               AMP_MIN_PCT_DEFAULT, AMP_MAX_PCT_DEFAULT)
            IN  IF IsNone(fs.l[p]) THEN None
                ELSE PyInt(CASE k = "CHOPPER_LEN" -> d.CHOPPER_LEN
                             [] k = "AMPLICON_SORTER_MIN" -> d.AMPLICON_SORTER_MIN
                             [] OTHER -> d.AMPLICON_SORTER_MAX)
    IN  IF failed # {}
        THEN [ok |-> FALSE, cfg |-> cfg0, exc |-> resolved[first].exc]
        ELSE [ok |-> TRUE,
              cfg |-> [k \in ConfigKeys |->
                          IF IsPerSample(k) /\ ~IsNone(resolved[Pos(k)].val)
                          THEN resolved[Pos(k)].val
                          ELSE IF k \in {"CHOPPER_LEN", "AMPLICON_SORTER_MIN",
                                         "AMPLICON_SORTER_MAX"} /\ IsList(fs)
                          THEN PyList([p \in 1..PyLen(fs) |-> Derived(k, p)])
                          ELSE cfg0[k]],
              exc |-> NoExc]

build_combined_config(base, args, samples, inputdirs) ==
    LET cfg0 == SharedFields(base, args, samples, inputdirs)
        n == PyLen(samples)
        resolved == [j \in 1..Len(PerSampleKeys) |->
                        _resolve_array_field(args[PerSampleArgs[j]], cfg0[PerSampleKeys[j]],
                                             n, PerSampleKeys[j])]
        failed == {j \in 1..Len(PerSampleKeys) : ~resolved[j].ok}
        first == CHOOSE j \in failed : \A j2 \in failed : j <= j2
        Pos(k) == CHOOSE j \in 1..Len(PerSampleKeys) : PerSampleKeys[j] = k
        IsPerSample(k) == \E j \in 1..Len(PerSampleKeys) : PerSampleKeys[j] = k
    IN  IF failed # {}
        THEN [ok |-> FALSE, cfg |-> cfg0, exc |-> resolved[first].exc]
        ELSE [ok |-> TRUE,
              cfg |-> [k \in ConfigKeys |->
                          IF IsPerSample(k) /\ ~IsNone(resolved[Pos(k)].val)
                          THEN resolved[Pos(k)].val
                          ELSE cfg0[k]],
              exc |-> NoExc]

(***************************************************************************)
(* validate_config                                                         *)
(* A violation is a record: kind, the field (key), the sample it names,    *)
(* and the two numbers of the message (observed length, sample count).     *)
(* The result is [ok, errors, exc]; ok is FALSE when the call raises.      *)
(***************************************************************************)
Viol(kind, key, sample, a, b) ==
    [kind |-> kind, key |-> key, sample |-> sample, a |-> a, b |-> b]

\* _sample_val that takes the first element of every list
_sample_val_first(field_val, idx) ==
    IF IsList(field_val)
    THEN IF PyLen(field_val) >= 1
         THEN [ok |-> TRUE, val |-> field_val.l[1]]
         ELSE [ok |-> FALSE, val |-> None]
    ELSE [ok |-> TRUE, val |-> field_val]

\* _sample_val: [ok, val]; indexing past the end of a list raises IndexError
_sample_val(field_val, idx) ==
    IF IsList(field_val)
    THEN IF PyLen(field_val) > 1
         THEN IF idx < PyLen(field_val)
              THEN [ok |-> TRUE, val |-> field_val.l[idx + 1]]
              ELSE [ok |-> FALSE, val |-> None]
         ELSE IF PyLen(field_val) = 1
              THEN [ok |-> TRUE, val |-> field_val.l[1]]
              ELSE [ok |-> FALSE, val |-> None]
    ELSE [ok |-> TRUE, val |-> field_val]

SampleCount(cfg) == IF Truthy(cfg["SAMPLE"]) THEN PyLen(cfg["SAMPLE"]) ELSE 0

\* lines 334-335
CheckSample(cfg) ==
    IF ~Truthy(cfg["SAMPLE"]) THEN << Viol("missing", "SAMPLE", "", 0, 0) >> ELSE << >>

\* lines 336-342
CheckInputdir(cfg) ==
    IF ~Truthy(cfg["INPUTDIR"]) THEN << Viol("missing", "INPUTDIR", "", 0, 0) >>
    ELSE IF PyLen(cfg["INPUTDIR"]) \notin {1, SampleCount(cfg)}
         THEN << Viol("inputdir_length", "INPUTDIR", "", PyLen(cfg["INPUTDIR"]), SampleCount(cfg)) >>
         ELSE << >>

\* lines 343-345
CheckRequired(cfg) ==
    LET One(k) == IF IsNone(cfg[k]) THEN << Viol("missing", k, "", 0, 0) >> ELSE << >>
    IN  One(RequiredKeys[1]) \o One(RequiredKeys[2]) \o One(RequiredKeys[3])

\* lines 346-362
CheckBarcodes(cfg) ==
    LET b == cfg["barcodes"]
        n == SampleCount(cfg)
        idxs == [i \in 1..PyLen(b) |-> i]
        empties == SelectSeq(idxs, LAMBDA i : ~Truthy(b.l[i]))
    IN  IF ~Truthy(b) THEN << Viol("barcodes_empty", "barcodes", "", 0, 0) >>
        ELSE IF IsList(b) /\ IsList(b.l[1])
             THEN IF PyLen(b) # n
                  THEN << Viol("barcodes_length", "barcodes", "", PyLen(b), n) >>
                  ELSE [j \in 1..Len(empties) |->
                           Viol("barcodes_sub_empty", "barcodes",
                                cfg["SAMPLE"].l[empties[j]].s, 0, 0)]
             ELSE << >>

\* lines 364-373
CheckLengths(cfg) ==
    LET n == SampleCount(cfg)
        idxs == [j \in 1..Len(PerSampleKeys) |-> j]
        bad == SelectSeq(idxs, LAMBDA j : IsList(cfg[PerSampleKeys[j]])
                                          /\ PyLen(cfg[PerSampleKeys[j]]) \notin {1, n})
    IN  [j \in 1..Len(bad) |->
            Viol("field_length", PerSampleKeys[bad[j]], "", PyLen(cfg[PerSampleKeys[bad[j]]]), n)]

\* lines 381-389: [ok, errors]; ok is FALSE when a _sample_val call raises
CheckResolvable(cfg) ==
    LET n == SampleCount(cfg)
        fs(i) == _sample_val(cfg["FRAGMENT_SIZE"], i)
        pv(i, k) == _sample_val(cfg[LengthKeys[k]], i)
        raises == \E i \in 0..(n - 1) :
                      ~fs(i).ok \/ \E k \in 1..Len(LengthKeys) : ~pv(i, k).ok
        pairs == [j \in 1..(n * Len(LengthKeys)) |->
                     [i |-> (j - 1) \div Len(LengthKeys),
                      k |-> ((j - 1) % Len(LengthKeys)) + 1]]
        bad == SelectSeq(pairs, LAMBDA p : IsNone(pv(p.i, p.k).val) /\ IsNone(fs(p.i).val))
    IN  IF raises THEN [ok |-> FALSE, errors |-> << >>]
        ELSE [ok |-> TRUE,
              errors |-> [j \in 1..Len(bad) |->
                             Viol("unresolvable", LengthKeys[bad[j].k],
                                  cfg["SAMPLE"].l[bad[j].i + 1].s, 0, 0)]]

validate_config(cfg) ==
    LET r == CheckResolvable(cfg)
    IN  IF ~r.ok
        THEN [ok |-> FALSE, errors |-> << >>, exc |-> Exc("IndexError", "", 0, 0)]
        ELSE [ok |-> TRUE,
              errors |-> CheckSample(cfg) \o CheckInputdir(cfg) \o CheckRequired(cfg)
                         \o CheckBarcodes(cfg) \o CheckLengths(cfg) \o r.errors,
              exc |-> NoExc]

(***************************************************************************)
(* load_base_config and the resolution of samples and input directories    *)
(***************************************************************************)
\* A key the JSON file does not have.
Absent == [t |-> "absent", i |-> 0, s |-> "", l |-> <<>>]

\* data after the normalisation of SAMPLE and INPUTDIR (a str becomes a list)
load_base_config(data) ==
    [k \in ConfigKeys |->
        IF k \in {"SAMPLE", "INPUTDIR"} /\ IsStr(data[k]) THEN PyList(<< data[k] >>)
        ELSE data[k]]

\* dict(DEFAULT_CONFIG) updated with the loaded keys (lines 420-424)
BaseConfig(data) ==
    LET loaded == load_base_config(data)
    IN  [k \in ConfigKeys |-> IF loaded[k] = Absent THEN DEFAULT_CONFIG[k] ELSE loaded[k]]

AsList(v) == IF IsList(v) THEN v ELSE PyList(<< v >>)

\* lines 428-433: [ok, val]
ResolveSamples(a, base) ==
    IF Truthy(a["sample"]) THEN [ok |-> TRUE, val |-> a["sample"]]
    ELSE IF Truthy(base["SAMPLE"]) THEN [ok |-> TRUE, val |-> AsList(base["SAMPLE"])]
    ELSE [ok |-> FALSE, val |-> None]

\* lines 438-446 and 449-457: broadcast a single directory or require one per sample
BroadcastDirs(dirs, smp) ==
    IF PyLen(dirs) = 1 THEN [ok |-> TRUE, val |-> PyList(Repeat(dirs.l, PyLen(smp)))]
    ELSE IF PyLen(dirs) = PyLen(smp) THEN [ok |-> TRUE, val |-> dirs]
    ELSE [ok |-> FALSE, val |-> None]

\* lines 436-459: [ok, val]
ResolveInputdirs(a, base, smp) ==
    IF ~IsNone(a["inputdir"]) THEN BroadcastDirs(a["inputdir"], smp)
    ELSE IF Truthy(base["INPUTDIR"]) THEN BroadcastDirs(AsList(base["INPUTDIR"]), smp)
    ELSE [ok |-> FALSE, val |-> None]

(***************************************************************************)
(* The queue summary (lines 480-512): one line per sample                  *)
(***************************************************************************)
_display_val(field_val, idx) ==
    IF IsList(field_val)
    THEN IF PyLen(field_val) > 1 THEN field_val.l[idx + 1] ELSE field_val.l[1]
    ELSE field_val

\* x or d
OrDefault(x, d) == IF Truthy(x) THEN x ELSE PyInt(d)

SummaryLine(c, idx) ==
    LET fs == _display_val(c["FRAGMENT_SIZE"], idx)
        cl == _display_val(c["CHOPPER_LEN"], idx)
        amin == _display_val(c["AMPLICON_SORTER_MIN"], idx)
        amax == _display_val(c["AMPLICON_SORTER_MAX"], idx)
        cl_pct == OrDefault(_display_val(c["CHOPPER_LEN_PCT"], idx), CHOPPER_LEN_PCT_DEFAULT)
        amin_pct == OrDefault(_display_val(c["AMPLICON_SORTER_MIN_PCT"], idx), AMP_MIN_PCT_DEFAULT)
        amax_pct == OrDefault(_display_val(c["AMPLICON_SORTER_MAX_PCT"], idx), AMP_MAX_PCT_DEFAULT)
        d == derive_from_fragment_size(fs.i, cl_pct.i, amin_pct.i, amax_pct.i)
        Shown(x, dv) == IF ~IsNone(fs) /\ IsNone(x) THEN PyInt(dv) ELSE x
    IN  [sample |-> c["SAMPLE"].l[idx + 1].s,
         inputdir |-> c["INPUTDIR"].l[idx + 1].s,
         fs |-> fs,
         cl |-> Shown(cl, d.CHOPPER_LEN),
         amin |-> Shown(amin, d.AMPLICON_SORTER_MIN),
         amax |-> Shown(amax, d.AMPLICON_SORTER_MAX)]

QueueSummary(c) == [j \in 1..PyLen(c["SAMPLE"]) |-> SummaryLine(c, j - 1)]

(***************************************************************************)
(* Bounds and the inputs of a run                                          *)
(***************************************************************************)
\* most samples on the command line or in the JSON file
MaxSamples == 2
\* a run differs from the reference run in at most this many options,
\* JSON keys and file-system facts
MaxDeviations == 2
\* the executor's exit statuses are 0..MaxExit
MaxExit == 2

SampleNames == << "A", "B", "C", "D" >>
DirNames == << "/x", "/y", "/z", "/w" >>

Names(q, n) == PyList([j \in 1..n |-> PyStr(q[j])])

\* lists of length n over the values vs
ListsOf(vs, n) == { PyList(q) : q \in [1..n -> vs] }

\* per-sample barcodes for n samples: none empty, or the p-th empty
Nested(n, p) ==
    PyList([j \in 1..n |-> IF j = p THEN PyList(<<>>) ELSE PyList(<< PyStr("1") >>)])

ArgNames ==
    { "config", "sample", "inputdir", "barcodes", "outdir", "chopper_qual",
      "fragment_size", "chopper_len", "amp_min", "amp_max", "chopper_len_pct",
      "amp_min_pct", "amp_max_pct", "allreads", "threads", "dry_run", "keep_configs" }

\* The reference run: --config FILE alone, FILE being a valid configuration
\* of two samples with one shared input directory.
HomeArgs ==
    [a \in ArgNames |->
        CASE a = "config" -> PyStr("cfg.json")
          [] a \in {"dry_run", "keep_configs"} -> PyBool(FALSE)
          [] OTHER -> None]

HomeFile ==
    [k \in ConfigKeys |->
        CASE k = "SAMPLE" -> Names(SampleNames, 2)
          [] k = "INPUTDIR" -> Names(DirNames, 1)
          [] k = "barcodes" -> PyList(<< PyStr("1"), PyStr("2") >>)
          [] k = "OUTDIR" -> PyStr("/out")
          [] k = "CHOPPER_QUAL" -> PyInt(20)
          [] k = "THREADS" -> PyInt(4)
          [] k = "FRAGMENT_SIZE" -> PyInt(300)
          [] OTHER -> Absent]

\* what argparse can produce for each option (lines 63-197)
ArgValues(a) ==
    CASE a = "config" -> { None }
      [] a = "sample" -> { Names(SampleNames, n) : n \in 1..MaxSamples }
      [] a = "inputdir" -> { Names(DirNames, n) : n \in 1..MaxSamples }
      [] a = "barcodes" -> { PyList(<< PyStr("7") >>) }
      [] a = "outdir" -> { PyStr("/cli") }
      [] a = "chopper_qual" -> { PyInt(10) }
      [] a = "fragment_size" -> { PyInt(300) }
      [] a = "chopper_len" -> { PyInt(120) }
      [] a = "amp_min" -> { PyInt(200) }
      [] a = "amp_max" -> { PyInt(350) }
      [] a = "chopper_len_pct" -> { PyFloat(40) }
      [] a = "amp_min_pct" -> { PyFloat(60) }
      [] a = "amp_max_pct" -> { PyFloat(140) }
      [] a = "allreads" -> { PyBool(TRUE), PyBool(FALSE) }
      [] a = "threads" -> { PyInt(8) }
      [] OTHER -> { PyBool(TRUE) }

\* what the JSON file can hold for each key, other than the reference value
FileValues(k) ==
    CASE k = "SAMPLE" ->
             { Absent, PyStr("A") } \cup { Names(SampleNames, n) : n \in 0..MaxSamples }
      [] k = "INPUTDIR" ->
             { Absent, PyStr("/x") } \cup { Names(DirNames, n) : n \in 0..MaxSamples }
      [] k = "barcodes" ->
             { Absent, PyList(<<>>) }
             \cup { Nested(n, p) : n \in 1..MaxSamples, p \in 0..1 }
      [] k \in {"OUTDIR", "CHOPPER_QUAL", "THREADS"} -> { None }
      [] k = "FRAGMENT_SIZE" ->
             { Absent, PyList(<<>>) }
             \cup UNION { ListsOf({ PyInt(300), None }, n) : n \in 1..MaxSamples }
      [] k = "CHOPPER_LEN" ->
             { PyInt(150) } \cup ListsOf({ PyInt(150), None }, MaxSamples)
      [] k = "AMPLICON_SORTER_MIN" -> { PyInt(200) }
      [] k = "AMPLICON_SORTER_MAX" -> { PyInt(350), PyList(<< PyInt(350) >>) }
      [] k = "AMPLICON_SORTER_ALLREADS" -> { PyBool(FALSE) }
      [] OTHER -> { PyInt(40) }

\* file-system facts: the --config file and the pipeline script
EnvFacts == { "config_missing", "config_malformed", "script_missing" }

DeviationItems ==
    UNION { { [where |-> "arg", key |-> a, val |-> v] :
                 v \in ArgValues(a) \ { HomeArgs[a] } } : a \in ArgNames }
    \cup UNION { { [where |-> "file", key |-> k, val |-> v] :
                      v \in FileValues(k) \ { HomeFile[k] } } : k \in ConfigKeys }
    \cup { [where |-> "env", key |-> e, val |-> None] : e \in EnvFacts }

\* the sets of at most k of the items, one value per option, key and fact
RECURSIVE UpTo(_, _)
UpTo(items, k) ==
    IF k = 0 THEN { {} }
    ELSE LET prev == UpTo(items, k - 1)
         IN  prev \cup { S \cup { d } : S \in prev, d \in items }

OnePerKey(S) == \A d1, d2 \in S : (d1.where = d2.where /\ d1.key = d2.key) => d1 = d2

Scenarios == { S \in UpTo(DeviationItems, MaxDeviations) : OnePerKey(S) }

ArgsOf(S) ==
    [a \in ArgNames |->
        IF \E d \in S : d.where = "arg" /\ d.key = a
        THEN (CHOOSE d \in S : d.where = "arg" /\ d.key = a).val
        ELSE HomeArgs[a]]

FileOf(S) ==
    [k \in ConfigKeys |->
        IF \E d \in S : d.where = "file" /\ d.key = k
        THEN (CHOOSE d \in S : d.where = "file" /\ d.key = k).val
        ELSE HomeFile[k]]

EnvOf(S) ==
    [config_file |-> IF \E d \in S : d.key = "config_missing" THEN "missing"
                     ELSE IF \E d \in S : d.key = "config_malformed" THEN "malformed"
                     ELSE "ok",
     script_ok |-> ~(\E d \in S : d.key = "script_missing")]

(***************************************************************************)
(* main                                                                    *)
(***************************************************************************)
VARIABLES
    pc,            \* position in main
    args,          \* the parsed options
    env,           \* the --config file (ok, missing, malformed) and the script
    file_data,     \* the content of the --config file
    base_config,
    samples,
    inputdirs,
    cfg,
    composed,      \* build_combined_config has returned cfg
    errors,        \* what validate_config returned
    validated,     \* validate_config has returned
    printed,       \* the violations main has printed
    summary,       \* the queue summary lines printed
    tmp_state,     \* the transient file: absent, open, closed, removed
    tmp_content,   \* << >> or << the configuration written >>
    tmp_path,      \* tmp_path is not None
    run_job_calls, \* calls of run_job
    exec_calls,    \* calls of subprocess.run
    exec_running,  \* the executor is running
    rc,            \* << >> while unbound, else << status >>
    unlink_calls,  \* calls of os.unlink
    exc,           \* the exception or parser error that ended the run
    exit_code      \* << >> while running, else << status >>

vars == << pc, args, env, file_data, base_config, samples, inputdirs, cfg, composed,
           errors, validated, printed, summary, tmp_state, tmp_content, tmp_path,
           run_job_calls, exec_calls, exec_running, rc, unlink_calls, exc, exit_code >>

cfgVars == << base_config, samples, inputdirs, cfg, composed, errors, validated,
              printed, summary >>
tmpVars == << tmp_state, tmp_content, tmp_path, unlink_calls >>
execVars == << run_job_calls, exec_calls, exec_running, rc >>
inputVars == << args, env, file_data >>

Init ==
    /\ \E S \in Scenarios :
          /\ args = ArgsOf(S)
          /\ env = EnvOf(S)
          /\ file_data = FileOf(S)
    /\ pc = "load"
    /\ base_config = DEFAULT_CONFIG
    /\ samples = None
    /\ inputdirs = None
    /\ cfg = DEFAULT_CONFIG
    /\ composed = FALSE
    /\ errors = << >>
    /\ validated = FALSE
    /\ printed = << >>
    /\ summary = << >>
    /\ tmp_state = "absent"
    /\ tmp_content = << >>
    /\ tmp_path = FALSE
    /\ run_job_calls = 0
    /\ exec_calls = 0
    /\ exec_running = FALSE
    /\ rc = << >>
    /\ unlink_calls = 0
    /\ exc = NoExc
    /\ exit_code = << >>

\* parser.error: argparse prints the message and exits with status 2
ParserError(what) ==
    /\ pc' = "exited"
    /\ exc' = Exc("parser.error", what, 0, 0)
    /\ exit_code' = << 2 >>

\* an exception nobody catches ends the interpreter with status 1
Uncaught(e) ==
    /\ pc' = "exited"
    /\ exc' = e
    /\ exit_code' = << 1 >>

\* lines 419-425
LoadBase ==
    /\ pc = "load"
    /\ IF Truthy(args["config"])
       THEN CASE env.config_file = "missing" ->
                     /\ ParserError("config")
                     /\ UNCHANGED base_config
              [] env.config_file = "malformed" ->
                     /\ Uncaught(Exc("JSONDecodeError", "config", 0, 0))
                     /\ UNCHANGED base_config
              [] OTHER ->
                     /\ base_config' = BaseConfig(file_data)
                     /\ pc' = "resolve"
                     /\ UNCHANGED << exc, exit_code >>
       ELSE /\ pc' = "resolve"
            /\ UNCHANGED << base_config, exc, exit_code >>
    /\ UNCHANGED << inputVars, samples, inputdirs, cfg, composed, errors, validated,
                    printed, summary, tmpVars, execVars >>

\* lines 427-463: samples, input directories, the script
Resolve ==
    /\ pc = "resolve"
    /\ LET s == ResolveSamples(args, base_config)
           d == ResolveInputdirs(args, base_config, s.val)
       IN  IF ~s.ok
           THEN ParserError("sample") /\ UNCHANGED << samples, inputdirs >>
           ELSE IF ~d.ok
           THEN ParserError("inputdir") /\ samples' = s.val /\ UNCHANGED inputdirs
           ELSE IF ~env.script_ok
           THEN ParserError("script") /\ samples' = s.val /\ inputdirs' = d.val
           ELSE /\ samples' = s.val
                /\ inputdirs' = d.val
                /\ pc' = "compose"
                /\ UNCHANGED << exc, exit_code >>
    /\ UNCHANGED << inputVars, base_config, cfg, composed, errors, validated, printed,
                    summary, tmpVars, execVars >>

\* line 466
Compose ==
    /\ pc = "compose"
    /\ LET r == build_combined_config(base_config, args, samples, inputdirs)
       IN  IF r.ok
           THEN /\ cfg' = r.cfg
                /\ composed' = TRUE
                /\ pc' = "validate"
                /\ UNCHANGED << exc, exit_code >>
           ELSE /\ Uncaught(r.exc)
                /\ UNCHANGED << cfg, composed >>
    /\ UNCHANGED << inputVars, base_config, samples, inputdirs, errors, validated,
                    printed, summary, tmpVars, execVars >>

\* Validate without the exit on violations
Validate_NoExit ==
    /\ pc = "validate"
    /\ LET r == validate_config(cfg)
       IN  IF ~r.ok
           THEN /\ Uncaught(r.exc)
                /\ UNCHANGED << errors, validated, printed >>
           ELSE /\ errors' = r.errors
                /\ validated' = TRUE
                /\ printed' = r.errors
                /\ pc' = "summary"
                /\ UNCHANGED << exc, exit_code >>
    /\ UNCHANGED << inputVars, base_config, samples, inputdirs, cfg, composed, summary,
                    tmpVars, execVars >>

\* lines 467-472
Validate ==
    /\ pc = "validate"
    /\ LET r == validate_config(cfg)
       IN  IF ~r.ok
           THEN /\ Uncaught(r.exc)
                /\ UNCHANGED << errors, validated, printed >>
           ELSE /\ errors' = r.errors
                /\ validated' = TRUE
                /\ IF Len(r.errors) > 0
                   THEN /\ printed' = r.errors
                        /\ pc' = "exited"
                        /\ exit_code' = << 1 >>
                        /\ UNCHANGED exc
                   ELSE /\ pc' = "summary"
                        /\ UNCHANGED << printed, exc, exit_code >>
    /\ UNCHANGED << inputVars, base_config, samples, inputdirs, cfg, composed, summary,
                    tmpVars, execVars >>

\* lines 474-518
PrintSummary ==
    /\ pc = "summary"
    /\ summary' = QueueSummary(cfg)
    /\ pc' = "create_tmp"
    /\ UNCHANGED << inputVars, base_config, samples, inputdirs, cfg, composed, errors,
                    validated, printed, tmpVars, execVars, exc, exit_code >>

\* lines 523-528: the file exists, nothing is written yet
CreateTmp ==
    /\ pc = "create_tmp"
    /\ tmp_state' = "open"
    /\ pc' = "write_tmp"
    /\ UNCHANGED << inputVars, cfgVars, tmp_content, tmp_path, unlink_calls, execVars,
                    exc, exit_code >>

\* lines 529-531
WriteTmp ==
    /\ pc = "write_tmp"
    /\ tmp_content' = << cfg >>
    /\ tmp_state' = "closed"
    /\ tmp_path' = TRUE
    /\ pc' = "run_job"
    /\ UNCHANGED << inputVars, cfgVars, unlink_calls, execVars, exc, exit_code >>

\* lines 529-530 raise (the disk is full): tmp_path is still None, the finally
\* clause removes nothing and the exception ends the run
WriteFails ==
    /\ pc = "write_tmp"
    /\ Uncaught(Exc("OSError", "write", 0, 0))
    /\ UNCHANGED << inputVars, cfgVars, tmpVars, execVars >>

\* run_job, lines 403-407, called from line 536
RunJob ==
    /\ pc = "run_job"
    /\ run_job_calls' = run_job_calls + 1
    /\ IF Truthy(args["dry_run"])
       THEN /\ rc' = << 0 >>
            /\ pc' = "finally"
            /\ UNCHANGED << exec_calls, exec_running >>
       ELSE /\ exec_calls' = exec_calls + 1
            /\ exec_running' = TRUE
            /\ pc' = "running"
            /\ UNCHANGED rc
    /\ UNCHANGED << inputVars, cfgVars, tmpVars, exc, exit_code >>

\* subprocess.run returns, line 408
ExecReturns ==
    /\ pc = "running"
    /\ \E code \in 0..MaxExit : rc' = << code >>
    /\ exec_running' = FALSE
    /\ pc' = "finally"
    /\ UNCHANGED << inputVars, cfgVars, tmpVars, run_job_calls, exec_calls, exc, exit_code >>

\* subprocess.run raises (bash cannot be started, the run is interrupted)
ExecRaises ==
    /\ pc = "running"
    /\ exec_running' = FALSE
    /\ exc' = Exc("OSError", "subprocess", 0, 0)
    /\ pc' = "finally"
    /\ UNCHANGED << inputVars, cfgVars, tmpVars, run_job_calls, exec_calls, rc, exit_code >>

\* after the finally clause: the pending exception, else the report
AfterFinally ==
    IF exc # NoExc
    THEN pc' = "exited" /\ exit_code' = << 1 >>
    ELSE pc' = "report" /\ UNCHANGED exit_code

\* Unlink that does not look at --keep-configs
Unlink_Always ==
    /\ pc = "finally"
    /\ tmp_path
    /\ unlink_calls' = unlink_calls + 1
    /\ tmp_state' = "removed"
    /\ AfterFinally
    /\ UNCHANGED << inputVars, cfgVars, tmp_content, tmp_path, execVars, exc >>

\* lines 538-541, os.unlink succeeds
Unlink ==
    /\ pc = "finally"
    /\ tmp_path /\ ~Truthy(args["keep_configs"])
    /\ unlink_calls' = unlink_calls + 1
    /\ tmp_state' = "removed"
    /\ AfterFinally
    /\ UNCHANGED << inputVars, cfgVars, tmp_content, tmp_path, execVars, exc >>

\* lines 541-543, os.unlink raises OSError, which is dropped
UnlinkFails ==
    /\ pc = "finally"
    /\ tmp_path /\ ~Truthy(args["keep_configs"])
    /\ unlink_calls' = unlink_calls + 1
    /\ AfterFinally
    /\ UNCHANGED << inputVars, cfgVars, tmp_state, tmp_content, tmp_path, execVars, exc >>

\* line 539, nothing to remove
KeepConfig ==
    /\ pc = "finally"
    /\ ~(tmp_path /\ ~Truthy(args["keep_configs"]))
    /\ AfterFinally
    /\ UNCHANGED << inputVars, cfgVars, tmpVars, execVars, exc >>

\* Exit that reports failure as status 1
Exit_Flattened ==
    /\ pc = "report"
    /\ exit_code' = << IF rc[1] = 0 THEN 0 ELSE 1 >>
    /\ pc' = "exited"
    /\ UNCHANGED << inputVars, cfgVars, tmpVars, execVars, exc >>

\* lines 545-550
Exit ==
    /\ pc = "report"
    /\ exit_code' = << rc[1] >>
    /\ pc' = "exited"
    /\ UNCHANGED << inputVars, cfgVars, tmpVars, execVars, exc >>

Next ==
    \/ LoadBase
    \/ Resolve
    \/ Compose
    \/ Validate
    \/ PrintSummary
    \/ CreateTmp
    \/ WriteTmp
    \/ WriteFails
    \/ RunJob
    \/ ExecReturns
    \/ ExecRaises
    \/ Unlink
    \/ UnlinkFails
    \/ KeepConfig
    \/ Exit

Spec == Init /\ [][Next]_vars

(***************************************************************************)
(* build_combined_config called on its own (line 466), with per-sample     *)
(* options given as lists, as its signature has them, for 1..MaxSamples+1  *)
(* samples.                                                                *)
(***************************************************************************)
Numbers(from, n) == PyList([j \in 1..n |-> PyInt(from + j)])

PerSampleArgSet == { PerSampleArgs[j] : j \in 1..Len(PerSampleArgs) }
PerSampleKeySet == { PerSampleKeys[j] : j \in 1..Len(PerSampleKeys) }

ComposeItems ==
    { [where |-> "arg", key |-> a, val |-> v] :
         a \in PerSampleArgSet,
         v \in { PyInt(100) } \cup { Numbers(100, n) : n \in 0..(MaxSamples + 1) } }
    \cup { [where |-> "file", key |-> k, val |-> v] :
              k \in PerSampleKeySet,
              v \in { PyInt(200), PyList(<< None >>) }
                    \cup { Numbers(200, n) : n \in 0..(MaxSamples + 1) } }

ComposeCalls == { S \in UpTo(ComposeItems, MaxDeviations) : OnePerKey(S) }

ComposeHome == [HomeFile EXCEPT !["FRAGMENT_SIZE"] = Absent]

Idle ==
    /\ env = [config_file |-> "ok", script_ok |-> TRUE]
    /\ file_data = HomeFile
    /\ composed = FALSE
    /\ errors = << >>
    /\ validated = FALSE
    /\ printed = << >>
    /\ summary = << >>
    /\ tmp_state = "absent"
    /\ tmp_content = << >>
    /\ tmp_path = FALSE
    /\ run_job_calls = 0
    /\ exec_calls = 0
    /\ exec_running = FALSE
    /\ rc = << >>
    /\ unlink_calls = 0
    /\ exc = NoExc
    /\ exit_code = << >>

InitCompose ==
    /\ \E S \in ComposeCalls, n \in 1..(MaxSamples + 1) :
          /\ args = ArgsOf(S)
          /\ base_config =
                 BaseConfig([k \in ConfigKeys |->
                                IF \E d \in S : d.where = "file" /\ d.key = k
                                THEN (CHOOSE d \in S : d.where = "file" /\ d.key = k).val
                                ELSE ComposeHome[k]])
          /\ samples = Names(SampleNames, n)
          /\ inputdirs = Names(DirNames, n)
    /\ pc = "compose"
    /\ cfg = DEFAULT_CONFIG
    /\ Idle

NextCompose == Compose

SpecCompose == InitCompose /\ [][NextCompose]_vars

(***************************************************************************)
(* validate_config called on its own (line 467) on configurations that     *)
(* differ from a valid composed one in at most MaxDeviations keys.         *)
(***************************************************************************)
\* lists of length n of v with at most one null
OneNull(v, n) ==
    { PyList([j \in 1..n |-> IF j = p THEN None ELSE v]) : p \in 0..n }

ValidateHome ==
    [k \in ConfigKeys |->
        CASE k = "SAMPLE" -> Names(SampleNames, 2)
          [] k = "INPUTDIR" -> PyList(<< PyStr("/x"), PyStr("/x") >>)
          [] k = "barcodes" -> PyList(<< PyStr("1"), PyStr("2") >>)
          [] k = "OUTDIR" -> PyStr("/out")
          [] k = "CHOPPER_QUAL" -> PyInt(20)
          [] k = "THREADS" -> PyInt(4)
          [] k = "AMPLICON_SORTER_ALLREADS" -> PyBool(TRUE)
          [] k = "FRAGMENT_SIZE" -> PyList(<< PyInt(300), PyInt(300) >>)
          [] OTHER -> None]

ValidateValues(k) ==
    CASE k = "SAMPLE" -> { None } \cup { Names(SampleNames, n) : n \in 0..(MaxSamples + 1) }
      [] k = "INPUTDIR" -> { None } \cup { Names(DirNames, n) : n \in 0..(MaxSamples + 1) }
      [] k = "barcodes" ->
             { None, PyList(<<>>) }
             \cup { Nested(n, p) : n \in 1..(MaxSamples + 1), p \in 0..(MaxSamples + 1) }
      [] k \in {"OUTDIR", "CHOPPER_QUAL", "THREADS"} -> { None }
      [] k \in {"FRAGMENT_SIZE", "CHOPPER_LEN", "AMPLICON_SORTER_MIN", "AMPLICON_SORTER_MAX"} ->
             { None, PyInt(250) }
             \cup UNION { OneNull(PyInt(250), n) : n \in 0..(MaxSamples + 1) }
      [] k = "AMPLICON_SORTER_ALLREADS" -> { PyBool(FALSE) }
      [] OTHER -> { PyList(<<>>), PyList(<< PyInt(40) >>) }

ValidateItems ==
    UNION { { [where |-> "cfg", key |-> k, val |-> v] :
                 v \in ValidateValues(k) \ { ValidateHome[k] } } : k \in ConfigKeys }

ValidateCalls == { S \in UpTo(ValidateItems, MaxDeviations) : OnePerKey(S) }

InitValidate ==
    /\ \E S \in ValidateCalls :
          cfg = [k \in ConfigKeys |->
                    IF \E d \in S : d.key = k
                    THEN (CHOOSE d \in S : d.key = k).val
                    ELSE ValidateHome[k]]
    /\ pc = "validate"
    /\ args = HomeArgs
    /\ base_config = DEFAULT_CONFIG
    /\ samples = None
    /\ inputdirs = None
    /\ Idle

NextValidate == Validate

SpecValidate == InitValidate /\ [][NextValidate]_vars


(***************************************************************************)
(* derive_from_fragment_size as the queue summary calls it (line 495), for *)
(* one sample whose three lengths are null. Percentages are whole numbers. *)
(***************************************************************************)
\* fragment sizes are -MaxFragment..MaxFragment, and 200 and 300
MaxFragment == 12

FragmentSizes == (-MaxFragment..MaxFragment) \cup {200, 300}
Percentages == { None, PyFloat(40), PyFloat(60), PyFloat(140), PyInt(50), PyInt(75),
                 PyInt(125), PyFloat(10) }

InitDerive ==
    /\ \E fs \in FragmentSizes, p1 \in Percentages, p2 \in Percentages, p3 \in Percentages :
          cfg = [ValidateHome EXCEPT
                    !["SAMPLE"] = Names(SampleNames, 1),
                    !["INPUTDIR"] = Names(DirNames, 1),
                    !["FRAGMENT_SIZE"] = PyList(<< PyInt(fs) >>),
                    !["CHOPPER_LEN_PCT"] = IF IsNone(p1) THEN None ELSE PyList(<< p1 >>),
                    !["AMPLICON_SORTER_MIN_PCT"] = IF IsNone(p2) THEN None ELSE PyList(<< p2 >>),
                    !["AMPLICON_SORTER_MAX_PCT"] = IF IsNone(p3) THEN None ELSE PyList(<< p3 >>)]
    /\ pc = "summary"
    /\ args = HomeArgs
    /\ base_config = DEFAULT_CONFIG
    /\ samples = Names(SampleNames, 1)
    /\ inputdirs = Names(DirNames, 1)
    /\ env = [config_file |-> "ok", script_ok |-> TRUE]
    /\ file_data = HomeFile
    /\ composed = TRUE
    /\ errors = << >>
    /\ validated = TRUE
    /\ printed = << >>
    /\ summary = << >>
    /\ tmp_state = "absent"
    /\ tmp_content = << >>
    /\ tmp_path = FALSE
    /\ run_job_calls = 0
    /\ exec_calls = 0
    /\ exec_running = FALSE
    /\ rc = << >>
    /\ unlink_calls = 0
    /\ exc = NoExc
    /\ exit_code = << >>

NextDerive == PrintSummary

SpecDerive == InitDerive /\ [][NextDerive]_vars


(***************************************************************************)
(* Claims                                                                  *)
(***************************************************************************)
SharedArgKey ==
    [a \in {"barcodes", "outdir", "chopper_qual", "allreads", "threads"} |->
        CASE a = "barcodes" -> "barcodes"
          [] a = "outdir" -> "OUTDIR"
          [] a = "chopper_qual" -> "CHOPPER_QUAL"
          [] a = "allreads" -> "AMPLICON_SORTER_ALLREADS"
          [] OTHER -> "THREADS"]

\* build_combined_config has been called and has returned or raised
ComposeReached ==
    /\ pc \notin {"load", "resolve", "compose"}
    /\ exc.type \notin {"parser.error", "JSONDecodeError"}

\* every per-sample field of the base is null, a scalar, or a list of 1 or n values
BaseWellFormed ==
    \A j \in 1..Len(PerSampleKeys) :
        IsList(base_config[PerSampleKeys[j]]) =>
            PyLen(base_config[PerSampleKeys[j]]) \in {1, PyLen(samples)}

\* C1: whenever the options supply an override for a field, build_combined_config
\* returns a configuration that holds the override in that field, at every
\* sample position for the seven per-sample fields, whatever the (well-formed)
\* base holds.
C1_Precedence ==
    (ComposeReached /\ BaseWellFormed) =>
        /\ composed
        /\ \A a \in DOMAIN SharedArgKey :
              ~IsNone(args[a]) => cfg[SharedArgKey[a]] = args[a]
        /\ \A j \in 1..Len(PerSampleArgs) :
              ~IsNone(args[PerSampleArgs[j]]) =>
                  /\ IsList(cfg[PerSampleKeys[j]])
                  /\ PyLen(cfg[PerSampleKeys[j]]) = PyLen(samples)
                  /\ \A p \in 1..PyLen(samples) :
                        cfg[PerSampleKeys[j]].l[p] = args[PerSampleArgs[j]]

\* The run of the scenario: the file has two samples, one input directory, flat
\* barcodes, OUTDIR, CHOPPER_QUAL and THREADS; the command line has --fragment-size 300.
ScenarioRun ==
    /\ args = [HomeArgs EXCEPT !["fragment_size"] = PyInt(300)]
    /\ file_data = [HomeFile EXCEPT !["FRAGMENT_SIZE"] = Absent]
    /\ env = [config_file |-> "ok", script_ok |-> TRUE]

\* C2: in the scenario, resolution and composition complete without error,
\* INPUTDIR is broadcast to two entries, FRAGMENT_SIZE is 300 for both samples,
\* the derived lengths are (150, 225, 375) for both and validation finds nothing.
C2_Scenario ==
    (ScenarioRun /\ pc \notin {"load", "resolve", "compose", "validate", "summary"}) =>
        /\ exc.type \notin {"TypeError", "ValueError", "parser.error"}
        /\ composed
        /\ cfg["INPUTDIR"] = PyList(<< PyStr("/x"), PyStr("/x") >>)
        /\ cfg["FRAGMENT_SIZE"] = PyList(<< PyInt(300), PyInt(300) >>)
        /\ validated
        /\ errors = << >>
        /\ Len(summary) = 2
        /\ \A j \in 1..Len(summary) :
              /\ summary[j].cl = PyInt(150)
              /\ summary[j].amin = PyInt(225)
              /\ summary[j].amax = PyInt(375)

\* the source _resolve_array_field chooses for the j-th per-sample field
ChosenSource(j) ==
    LET cli == args[PerSampleArgs[j]]
        b == base_config[PerSampleKeys[j]]
    IN  IF ~IsNone(cli) THEN cli
        ELSE IF IsList(b) THEN b
        ELSE IF ~IsNone(b) THEN PyList(<< b >>)
        ELSE None

FieldIdx == 1..Len(PerSampleKeys)

\* C3: a chosen source sequence of length 1 resolves to n copies of its element,
\* one of length n to itself, and re-resolving a resolved field as the base
\* value returns it unchanged; any other length raises a ValueError that names
\* the field, the observed length and n, and no configuration is produced.
C3_CardinalityRule ==
    (pc # "compose" /\ \A j \in FieldIdx : IsNone(ChosenSource(j)) \/ IsList(ChosenSource(j))) =>
        LET n == PyLen(samples)
            bad == { j \in FieldIdx :
                        IsList(ChosenSource(j)) /\ PyLen(ChosenSource(j)) \notin {1, n} }
        IN  IF bad = {}
            THEN /\ composed
                 /\ \A j \in FieldIdx :
                       LET src == ChosenSource(j)
                           got == cfg[PerSampleKeys[j]]
                       IN  IsList(src) =>
                              /\ PyLen(src) = 1 =>
                                    /\ IsList(got) /\ PyLen(got) = n
                                    /\ \A p \in 1..n : got.l[p] = src.l[1]
                              /\ PyLen(src) = n => got = src
                              /\ _resolve_array_field(None, got, n, PerSampleKeys[j]) = Ret(got)
            ELSE /\ ~composed
                 /\ cfg = DEFAULT_CONFIG
                 /\ pc = "exited"
                 /\ exc.type = "ValueError"
                 /\ \E j \in bad :
                       /\ exc.field = PerSampleKeys[j]
                       /\ exc.count = PyLen(ChosenSource(j))
                       /\ exc.n = n

\* a 2-element sequence against a 3-sample batch has been rejected
C3_Witness ==
    /\ pc = "exited"
    /\ exc.type = "ValueError" /\ exc.count = 2 /\ exc.n = 3
    /\ PyLen(samples) = 3

\* the value of a per-sample field for the sample at position p (from 1)
Effective(v, p) ==
    IF IsList(v) THEN (IF PyLen(v) = 1 THEN v.l[1] ELSE v.l[p]) ELSE v

Has(kind, key, sample) ==
    \E j \in 1..Len(errors) :
        errors[j].kind = kind /\ errors[j].key = key /\ errors[j].sample = sample

HasKey(key) == \E j \in 1..Len(errors) : errors[j].key = key

NestedBarcodes(c) ==
    Truthy(c["barcodes"]) /\ IsList(c["barcodes"]) /\ IsList(c["barcodes"].l[1])

\* the six checks of validate_config, as conditions on the configuration
Check1Fails(c) == ~Truthy(c["SAMPLE"])
Check2Fails(c) ==
    ~Truthy(c["INPUTDIR"]) \/ PyLen(c["INPUTDIR"]) \notin {1, SampleCount(c)}
Check3Fails(c, k) == IsNone(c[k])
Check4Fails(c) ==
    \/ ~Truthy(c["barcodes"])
    \/ /\ NestedBarcodes(c)
       /\ \/ PyLen(c["barcodes"]) # SampleCount(c)
          \/ \E p \in 1..PyLen(c["barcodes"]) : ~Truthy(c["barcodes"].l[p])
Check5Fails(c, k) == IsList(c[k]) /\ PyLen(c[k]) \notin {1, SampleCount(c)}
ListsWellFormed(c) == \A k \in PerSampleKeySet : ~Check5Fails(c, k)

Unresolvable(c, p, j) ==
    IsNone(Effective(c[LengthKeys[j]], p)) /\ IsNone(Effective(c["FRAGMENT_SIZE"], p))

\* C9: for a configuration whose per-sample fields are null, scalars or lists of
\* 1 or n values, validate_config records a violation naming sample i and length
\* field k exactly when the effective value of k and the effective FRAGMENT_SIZE
\* of sample i are both null; with zero violations every length field of every
\* sample is set or its fragment size is.
C9_Resolvability ==
    (pc # "validate" /\ ListsWellFormed(cfg)) =>
        /\ validated
        /\ \A p \in 1..SampleCount(cfg), j \in 1..Len(LengthKeys) :
              Has("unresolvable", LengthKeys[j], cfg["SAMPLE"].l[p].s)
                  <=> Unresolvable(cfg, p, j)
        /\ Cardinality({ j \in 1..Len(errors) : errors[j].kind = "unresolvable" })
              = Cardinality({ q \in (1..SampleCount(cfg)) \X (1..Len(LengthKeys)) :
                                 Unresolvable(cfg, q[1], q[2]) })
        /\ errors = << >> =>
              \A p \in 1..SampleCount(cfg), j \in 1..Len(LengthKeys) :
                  \/ ~IsNone(Effective(cfg[LengthKeys[j]], p))
                  \/ ~IsNone(Effective(cfg["FRAGMENT_SIZE"], p))

\* the second sample cannot resolve a length, the first can resolve all three
C9_Witness ==
    /\ validated
    /\ SampleCount(cfg) = 2
    /\ IsList(cfg["FRAGMENT_SIZE"]) /\ PyLen(cfg["FRAGMENT_SIZE"]) = 2
    /\ Has("unresolvable", "CHOPPER_LEN", "B")
    /\ ~Has("unresolvable", "CHOPPER_LEN", "A")
    /\ ~Has("unresolvable", "AMPLICON_SORTER_MIN", "A")
    /\ ~Has("unresolvable", "AMPLICON_SORTER_MAX", "A")

\* the sample a barcodes sub-list at position p belongs to, as line 359 names it
OffendingSample(c, p) ==
    IF p <= SampleCount(c) THEN c["SAMPLE"].l[p].s ELSE "index"

\* C10: validate_config reports empty or missing barcodes; for per-sample
\* barcodes it reports a length other than n, and it reports every empty
\* sub-list, naming its sample; with zero violations barcodes is a non-empty
\* flat list or n non-empty sub-lists.
C10_Barcodes ==
    validated =>
        /\ ~Truthy(cfg["barcodes"]) => Has("barcodes_empty", "barcodes", "")
        /\ NestedBarcodes(cfg) =>
              /\ PyLen(cfg["barcodes"]) # SampleCount(cfg)
                    => Has("barcodes_length", "barcodes", "")
              /\ \A p \in 1..PyLen(cfg["barcodes"]) :
                    ~Truthy(cfg["barcodes"].l[p])
                        => Has("barcodes_sub_empty", "barcodes", OffendingSample(cfg, p))
        /\ errors = << >> =>
              /\ Truthy(cfg["barcodes"])
              /\ NestedBarcodes(cfg) =>
                    /\ PyLen(cfg["barcodes"]) = SampleCount(cfg)
                    /\ \A p \in 1..PyLen(cfg["barcodes"]) : Truthy(cfg["barcodes"].l[p])

\* no resolution error and no violation has been reported
ResolutionFailed ==
    \/ exc.type \in {"parser.error", "JSONDecodeError", "TypeError", "ValueError", "IndexError"}
    \/ Len(errors) > 0

ConfigValid(c) ==
    /\ ~Check1Fails(c) /\ ~Check2Fails(c) /\ ~Check4Fails(c)
    /\ \A j \in 1..Len(RequiredKeys) : ~Check3Fails(c, RequiredKeys[j])
    /\ ListsWellFormed(c)
    /\ \A p \in 1..SampleCount(c), j \in 1..Len(LengthKeys) : ~Unresolvable(c, p, j)

\* C5: when resolution or validation reports an error or a violation, the
\* executor is never invoked and no transient file is written; the file is
\* written and the executor reached only after validate_config returned an
\* empty list for a configuration that passes all six checks.
C5_ValidationGate ==
    /\ ResolutionFailed =>
          /\ tmp_state = "absent" /\ tmp_content = << >>
          /\ run_job_calls = 0 /\ exec_calls = 0 /\ ~exec_running
    /\ (tmp_state # "absent" \/ run_job_calls > 0 \/ exec_calls > 0) =>
          /\ composed /\ validated /\ errors = << >>
          /\ ConfigValid(cfg)

\* validation has reported violations and the run has ended
C5_Witness ==
    pc = "exited" /\ validated /\ Len(errors) >= 2 /\ tmp_state = "absent"

PassedValidation == validated /\ errors = << >>

\* C6: a run that passes validation dispatches the executor at most once,
\* exactly once when it is not a dry run and never in a dry run, and ends with
\* the status the executor returned (0 in a dry run).
C6_Dispatch ==
    /\ exec_calls <= 1 /\ run_job_calls <= 1
    /\ Truthy(args["dry_run"]) => exec_calls = 0
    /\ (PassedValidation /\ pc \in {"running", "finally", "report"}
        /\ ~Truthy(args["dry_run"])) => exec_calls = 1
    /\ (PassedValidation /\ pc = "exited" /\ exc = NoExc) =>
          /\ rc # << >>
          /\ exit_code = rc
          /\ run_job_calls = 1
          /\ exec_calls = IF Truthy(args["dry_run"]) THEN 0 ELSE 1
          /\ Truthy(args["dry_run"]) => exit_code = << 0 >>

\* the executor failed with status 2 and main ended with it
C6_Witness ==
    pc = "exited" /\ exec_calls = 1 /\ rc = << 2 >> /\ exit_code = << 2 >>

\* C7: the transient file is written and closed before the executor is invoked
\* and is not removed while it runs; after the executor has returned or raised,
\* os.unlink has been called once unless --keep-configs was given, in which
\* case the file is still there; whether the removal succeeds or fails, the
\* run ends with the same status.
C7_TmpLifecycle ==
    /\ run_job_calls > 0 => tmp_path /\ tmp_content = << cfg >>
    /\ (pc = "running" \/ exec_running) => tmp_state = "closed" /\ unlink_calls = 0
    /\ (run_job_calls > 0 /\ pc \in {"report", "exited"}) =>
          IF Truthy(args["keep_configs"])
          THEN tmp_state = "closed" /\ unlink_calls = 0
          ELSE unlink_calls = 1 /\ tmp_state \in {"removed", "closed"}
    /\ tmp_state = "removed" => unlink_calls = 1 /\ ~Truthy(args["keep_configs"])
    /\ (run_job_calls > 0 /\ pc = "exited") =>
          exit_code = IF exc = NoExc THEN rc ELSE << 1 >>

\* the executor raised and the file has been removed all the same
C7_Witness ==
    /\ pc = "exited" /\ exec_calls = 1
    /\ exc.type = "OSError" /\ exc.field = "subprocess"
    /\ tmp_state = "removed"

Abs(x) == IF x < 0 THEN -x ELSE x

\* the percentage the summary passes for a field of the configuration
PctPassed(v, d) == IF Truthy(Effective(v, 1)) THEN Effective(v, 1).i ELSE d

ShownLength(line, j) ==
    CASE j = 2 -> line.cl
      [] j = 3 -> line.amin
      [] OTHER -> line.amax

\* C11: no derived value is ever stored: a length field with neither an override
\* nor a base value is null in the composed configuration and in the file
\* written for the executor, also when FRAGMENT_SIZE is set; a null entry of a
\* per-sample list stays null; and a length set explicitly for a sample stands
\* in the configuration, in the file and in the summary.
C11_DeferredDerivation ==
    /\ tmp_content # << >> => composed /\ tmp_content[1] = cfg
    /\ summary # << >> => composed /\ Len(summary) = PyLen(samples)
    /\ composed =>
          \A j \in 2..4, p \in 1..PyLen(samples) :
              LET src == ChosenSource(j)
                  got == cfg[PerSampleKeys[j]]
              IN  /\ IsNone(src) => IsNone(got)
                  /\ IsList(src) =>
                        /\ IsList(got) /\ PyLen(got) = PyLen(samples)
                        /\ got.l[p] = Effective(src, p)
                        /\ (summary # << >> /\ ~IsNone(Effective(src, p))) =>
                              ShownLength(summary[p], j) = Effective(src, p)

\* FRAGMENT_SIZE is set, AMPLICON_SORTER_MIN is not: the summary shows the
\* derived 225, the configuration and the file written still hold null
C11_Witness ==
    /\ tmp_content # << >>
    /\ ~IsNone(cfg["FRAGMENT_SIZE"])
    /\ IsNone(ChosenSource(3))
    /\ IsNone(tmp_content[1]["AMPLICON_SORTER_MIN"])
    /\ summary[1].amin = PyInt(225)
    /\ ~IsNone(ChosenSource(4))

====
